---------------------------- MODULE Spec2Model ----------------------------
(***************************************************************************)
(* A model of src/synonym_replacer.py: class SynonymReplacer.               *)
(*                                                                         *)
(* Strings are sequences of Unicode code points (a Python str), so that    *)
(* the character classes of the code ('a' <= c <= 'z', U+4E00..U+9FFF),     *)
(* lower(), strip() and slicing are computed as the code computes them.    *)
(* Offsets into a run are 0-based and inclusive, as in the code.           *)
(* The three-valued flags of the code (True / False / None) are the        *)
(* strings "True", "False", "None".                                        *)
(***************************************************************************)
EXTENDS Integers, Sequences, FiniteSets, TLC

VARIABLES
    synonym_dict,        \* self.synonym_dict: lowercase variant -> canonical term
    synonym_dict_label,  \* self.synonym_dict_label: lowercase variant -> column
    pc,                  \* position of the running call
    input,               \* the argument of replace_text / _add_synonym_and_variants
    parts,               \* replace_text: re.split(split_pattern, text)
    part_i,              \* replace_text: index (1-based) of the part in the for loop
    modified_parts,      \* replace_text: list of replaced parts
    replaced_part_with_sws, \* replace_text: list of annotated parts
    all_replacements_made,  \* replace_text: list of (matched_text, replacement)
    found_name_all,      \* replace_text: found_competitor_name
    found_product_all,   \* replace_text: found_competitor_product
    run,                 \* _replace_text_internal: its argument text (a content run)
    all_matches,         \* _replace_text_internal: sorted boundary-accepted matches
    match_i,             \* _replace_text_internal: index (1-based) of the candidate
    exist_j,             \* _replace_text_internal: index into match_dict[sw]
    final_matches,       \* _replace_text_internal: the accepted plan
    last_end,            \* _replace_text_internal: last_end
    match_dict,          \* _replace_text_internal: canonical term -> accepted matches
    found_competitor_name, \* _replace_text_internal: found_competitor_name
    result,              \* the value returned by replace_text
    expanded,            \* the list returned by replace_question_marks
    raised,              \* the exception the call ended in, "" when none
    normalized,          \* the string returned by normalize_spaces
    excel_file,          \* the table load_synonyms reads from excel_file_path
    calls,               \* the _add_synonym_and_variants calls made so far
    automaton,           \* self.automaton: the words added and whether it is made
    other                \* the frame of a second replace_text call, suspended

vars == <<synonym_dict, synonym_dict_label, pc, input, parts, part_i,
          modified_parts, replaced_part_with_sws, all_replacements_made,
          found_name_all, found_product_all, all_matches, match_i, exist_j,
          final_matches, last_end, match_dict, found_competitor_name,
          result, raised, run, expanded, normalized,
          excel_file, calls, automaton, other>>

(***************************************************************************)
(* Python str primitives over code-point sequences.                        *)
(***************************************************************************)

\* text[i] for a 0-based index i; a negative i counts from the end.
PyAt(text, i) == IF i < 0 THEN text[Len(text) + i + 1] ELSE text[i + 1]

\* text[a:b] for 0 <= a: empty when b <= a, cut at len(text).
PySlice(text, a, b) ==
    LET hi == IF b > Len(text) THEN Len(text) ELSE b
    IN  IF hi <= a THEN <<>> ELSE SubSeq(text, a + 1, hi)

\* str.lower() of one character: ASCII letters (the CJK ideographs and the
\* punctuation used here have no case).
LowerChar(c) == IF 65 <= c /\ c <= 90 THEN c + 32 ELSE c

Lower(s) == [i \in 1..Len(s) |-> LowerChar(s[i])]

\* str.isspace() of one character (also the class \s of re on str).
IsSpace(c) ==
    \/ (9 <= c /\ c <= 13) \/ (28 <= c /\ c <= 32)
    \/ c \in {133, 160, 5760, 8232, 8233, 8239, 8287, 12288}
    \/ (8192 <= c /\ c <= 8202)

RECURSIVE LStrip(_)
LStrip(s) == IF s # <<>> /\ IsSpace(Head(s)) THEN LStrip(Tail(s)) ELSE s

RECURSIVE RStrip(_)
RStrip(s) ==
    IF s # <<>> /\ IsSpace(s[Len(s)]) THEN RStrip(SubSeq(s, 1, Len(s) - 1)) ELSE s

\* str.strip()
Strip(s) == RStrip(LStrip(s))

\* needle in hay (substring test of Python's "in" on str)
Contains(hay, needle) ==
    \E a \in 0..(Len(hay) - Len(needle)) : PySlice(hay, a, a + Len(needle)) = needle

\* "".join(list)
RECURSIVE Join(_)
Join(list) == IF list = <<>> THEN <<>> ELSE Head(list) \o Join(Tail(list))

\* the elements of a list
Range(list) == {list[i] : i \in DOMAIN list}

(***************************************************************************)
(* Vocabulary constants of the code.                                       *)
(***************************************************************************)

\* '名词' (U+540D U+8BCD): standard_word_col, and the label of canonical rows
standard_word_col == <<21517, 35789>>

\* self.gps_name = ["GE", "西门子", "飞利浦", "Siemens", "通用电气", "Philips"]
gps_name ==
    << <<71, 69>>, <<35199, 38376, 23376>>, <<39134, 21033, 28006>>,
       <<83, 105, 101, 109, 101, 110, 115>>, <<36890, 29992, 30005, 27668>>,
       <<80, 104, 105, 108, 105, 112, 115>> >>

\* the substitution alphabet without its last element
wildcard_replacements_short == << <<45>>, <<95>>, <<94>>, <<>>, <<32>> >>

\* wildcard_replacements = ['-', '_', '^', '', ' ', "—"]
wildcard_replacements == << <<45>>, <<95>>, <<94>>, <<>>, <<32>>, <<8212>> >>

\* special_chars_pattern = r'[\-_`!@#$%^&=~—]'
special_chars == {45, 95, 96, 33, 64, 35, 36, 37, 94, 38, 61, 126, 8212}

(***************************************************************************)
(* Variant expander: replace_question_marks, _add_synonym_and_variants.    *)
(***************************************************************************)

\* backtrack(current, index) of replace_question_marks: the list it appends
\* to result, in order.
RECURSIVE backtrack(_, _, _)
backtrack(s, current, index) ==
    IF index = Len(s) THEN <<current>>
    ELSE IF PyAt(s, index) = 63
         THEN LET RECURSIVE over(_)
                  over(k) ==
                      IF k > Len(wildcard_replacements) THEN <<>>
                      ELSE backtrack(s, current \o wildcard_replacements[k], index + 1)
                           \o over(k + 1)
              IN  over(1)
         ELSE backtrack(s, Append(current, PyAt(s, index)), index + 1)

replace_question_marks(s) == backtrack(s, <<>>, 0)

\* re.sub(special_chars_pattern, '', word)
RemoveSpecial(word) == SelectSeq(word, LAMBDA c : c \notin special_chars)

\* re.sub(special_chars_pattern, ' ', word)
SpaceSpecial(word) == [i \in 1..Len(word) |-> IF word[i] \in special_chars THEN 32 ELSE word[i]]

\* re.sub(r'\s+', ' ', s)
RECURSIVE CollapseWhitespace(_)
CollapseWhitespace(s) ==
    IF s = <<>> THEN <<>>
    ELSE IF IsSpace(Head(s))
         THEN <<32>> \o CollapseWhitespace(LStrip(s))
         ELSE <<Head(s)>> \o CollapseWhitespace(Tail(s))

\* final_variants of _add_synonym_and_variants for the stripped synonym
final_variants(synonym) ==
    LET wheather_expand == 63 \in Range(synonym)
        words_to_process ==
            IF wheather_expand THEN Range(replace_question_marks(synonym))
            ELSE {synonym}
        derived(word) ==
            IF wheather_expand /\ (Range(word) \cap special_chars # {})
            THEN {Strip(RemoveSpecial(word)),
                  CollapseWhitespace(Strip(SpaceSpecial(word)))}
            ELSE {}
    IN  words_to_process \cup UNION {derived(word) : word \in words_to_process}

\* a key already registered keeps its first canonical term and label
add_synonym_and_variants_first_wins(tbl, synonym, standard_word, col) ==
    LET syn == Strip(synonym)
        keys == {Lower(variant) : variant \in {v \in final_variants(syn) : v # <<>>}}
    IN  IF syn = <<>> THEN tbl
        ELSE [d |-> [k \in DOMAIN tbl.d \cup keys |->
                        IF k \in DOMAIN tbl.d THEN tbl.d[k] ELSE standard_word],
              l |-> [k \in DOMAIN tbl.l \cup keys |->
                        IF k \in DOMAIN tbl.l THEN tbl.l[k] ELSE col]]

\* _add_synonym_and_variants on the pair of tables tbl = [d, l]
add_synonym_and_variants(tbl, synonym, standard_word, col) ==
    LET syn == Strip(synonym)
        keys == {Lower(variant) : variant \in {v \in final_variants(syn) : v # <<>>}}
    IN  IF syn = <<>> THEN tbl
        ELSE [d |-> [k \in DOMAIN tbl.d \cup keys |->
                        IF k \in keys THEN standard_word ELSE tbl.d[k]],
              l |-> [k \in DOMAIN tbl.l \cup keys |->
                        IF k \in keys THEN col ELSE tbl.l[k]]]

(***************************************************************************)
(* Pattern compiler: load_synonyms over a table df = [columns, rows], a    *)
(* row being the list of its cells (str(row[col])) in column order.        *)
(***************************************************************************)

\* "nan", "None", "none", "/"
MissingMarkers ==
    {<<110, 97, 110>>, <<78, 111, 110, 101>>, <<110, 111, 110, 101>>, <<47>>}

\* the for loop over enumerate(df.columns) of one row, from column idx (0-based)
RECURSIVE load_columns(_, _, _, _, _, _, _)
load_columns(df, row, standard_word, idx, skip_col_index, friend_company_index, tbl) ==
    IF idx >= Len(df.columns) THEN tbl
    ELSE
      LET col == PyAt(df.columns, idx)
          skip == IF Contains(col, <<35835, 38899, 38899, 26631>>) THEN idx
                  ELSE skip_col_index
          excluded == \/ col = standard_word_col
                      \/ Contains(col, <<19981, 20316, 21442, 32771>>)
                      \/ Contains(col, <<25991, 26412, 32, 51, 53>>)
          friend == IF ~excluded /\ Contains(col, <<71, 69, 21830, 21697, 21517, 49>>)
                    THEN idx ELSE friend_company_index
          skipped == skip # -1 /\ idx >= skip /\ friend = -1
          synonym == Strip(PyAt(row, idx))
          tbl2 == IF excluded \/ skipped \/ synonym = <<>> \/ synonym \in MissingMarkers
                  THEN tbl
                  ELSE add_synonym_and_variants(tbl, synonym, standard_word, col)
      IN  load_columns(df, row, standard_word, idx + 1, skip, friend, tbl2)

\* the first column taken for the canonical column whatever its name
StandardColIndex_first(df) == 1

\* the index of standard_word_col in df.columns (1-based), 0 when missing
StandardColIndex(df) ==
    IF \E i \in DOMAIN df.columns : df.columns[i] = standard_word_col
    THEN CHOOSE i \in DOMAIN df.columns : df.columns[i] = standard_word_col
    ELSE 0

\* the for loop over df.iterrows(), from row r (1-based)
RECURSIVE load_rows(_, _, _)
load_rows(df, r, tbl) ==
    IF r > Len(df.rows) THEN tbl
    ELSE
      LET row == df.rows[r]
          standard_word == Strip(row[StandardColIndex(df)])
          none == standard_word = <<>> \/ standard_word = <<110, 97, 110>>
                  \/ Lower(standard_word) = <<110, 111, 110, 101>>
          tbl1 == add_synonym_and_variants(tbl, Lower(standard_word), standard_word,
                                           standard_word_col)
      IN  IF none THEN load_rows(df, r + 1, tbl)
          ELSE load_rows(df, r + 1,
                         load_columns(df, row, standard_word, 0, -1, -1, tbl1))

EmptyTable == [d |-> <<>>, l |-> <<>>]

\* line 13: ahocorasick.Automaton()
NewAutomaton == [made |-> FALSE, words |-> <<>>]

\* lines 118-123: add_word(keyword, (keyword, value)) for every item of
\* synonym_dict, then make_automaton()
make_automaton(dict) == [made |-> TRUE, words |-> dict]

\* load_synonyms: the two tables, or the ValueError of a missing '名词' column.
\* The automaton holds exactly the keys of synonym_dict (add_word per item).
load_synonyms(df) ==
    IF StandardColIndex(df) = 0
    THEN [raised |-> "ValueError", tbl |-> EmptyTable]
    ELSE [raised |-> "", tbl |-> load_rows(df, 1, EmptyTable)]

(***************************************************************************)
(* Space normalizer: normalize_spaces.                                     *)
(***************************************************************************)

\* is_chinese / is_chinese_char: '一' <= char <= '鿿'
is_chinese_char(c) == 19968 <= c /\ c <= 40959

\* is_english of normalize_spaces: char.isascii() and char.isalpha()
is_english(c) == (97 <= c /\ c <= 122) \/ (65 <= c /\ c <= 90)

\* a run of spaces taken one space at a time
SpaceRunEnd_single(text, i) == i + 1

\* a run of spaces taken two spaces at a time
SpaceRunEnd_pairs(text, i) ==
    IF i + 1 < Len(text) /\ PyAt(text, i + 1) = 32 THEN i + 2 ELSE i + 1

\* the index after the run of ' ' that starts at i (0-based)
RECURSIVE SpaceRunEnd(_, _)
SpaceRunEnd(text, i) ==
    IF i < Len(text) /\ PyAt(text, i) = 32 THEN SpaceRunEnd(text, i + 1) ELSE i

\* the while loop of normalize_spaces from index i: what it appends to result
RECURSIVE normalize_from(_, _)
normalize_from(text, i) ==
    IF i >= Len(text) THEN <<>>
    ELSE IF PyAt(text, i) = 32
         THEN LET space_start == i
                  j == SpaceRunEnd(text, i)
                  prev_is_chinese ==
                      space_start > 0 /\ is_chinese_char(PyAt(text, space_start - 1))
                  next_is_chinese == j < Len(text) /\ is_chinese_char(PyAt(text, j))
              IN  IF prev_is_chinese /\ next_is_chinese
                  THEN normalize_from(text, j)
                  ELSE <<32>> \o normalize_from(text, j)
         ELSE <<PyAt(text, i)>> \o normalize_from(text, i + 1)

normalize_spaces(text) == normalize_from(text, 0)

(***************************************************************************)
(* Segmenter: split_pattern = r'((?:\n|\r|\t|\\[nrt])+)'.                   *)
(***************************************************************************)

\* the pattern without its \n alternative
DelimLen_no_newline(text, i) ==
    IF i < Len(text) /\ PyAt(text, i) \in {13, 9} THEN 1
    ELSE IF i + 1 < Len(text) /\ PyAt(text, i) = 92
            /\ PyAt(text, i + 1) \in {110, 114, 116} THEN 2
    ELSE 0

\* the length of one alternative of the pattern matched at i (0-based), or 0
DelimLen(text, i) ==
    IF i < Len(text) /\ PyAt(text, i) \in {10, 13, 9} THEN 1
    ELSE IF i + 1 < Len(text) /\ PyAt(text, i) = 92
            /\ PyAt(text, i + 1) \in {110, 114, 116} THEN 2
    ELSE 0

\* the end of the greedy (...)+ match that starts at i
RECURSIVE DelimRunEnd(_, _)
DelimRunEnd(text, i) ==
    IF DelimLen(text, i) = 0 THEN i ELSE DelimRunEnd(text, i + DelimLen(text, i))

\* re.split(split_pattern, text) with its capture group: content, delimiter,
\* content, ... (cur is where the current content part began)
RECURSIVE split_from(_, _, _)
split_from(text, i, cur) ==
    IF i >= Len(text) THEN <<PySlice(text, cur, Len(text))>>
    ELSE IF DelimLen(text, i) > 0
         THEN LET e == DelimRunEnd(text, i)
              IN  <<PySlice(text, cur, i), PySlice(text, i, e)>> \o split_from(text, e, e)
         ELSE split_from(text, i + 1, cur)

re_split(text) == split_from(text, 0, 0)

\* re.fullmatch(separator_pattern, part)
is_separator(part) ==
    part # <<>> /\ DelimLen(part, 0) > 0 /\ DelimRunEnd(part, 0) = Len(part)

(***************************************************************************)
(* Scanner and boundary filter: lines 228-313 of _replace_text_internal.   *)
(***************************************************************************)

is_ascii_alphabet(c) == (97 <= c /\ c <= 122) \/ (65 <= c /\ c <= 90)

\* allowed_extra = "_" instead of "-_"
WordChar_no_hyphen(ch) ==
    \/ (97 <= ch /\ ch <= 122) \/ (65 <= ch /\ ch <= 90) \/ (48 <= ch /\ ch <= 57)
    \/ ch = 95

\* one character of is_alphanumeric_english_only:
\* ch.isascii() and (ch.isalnum() or ch in "-_")
WordChar(ch) ==
    \/ (97 <= ch /\ ch <= 122) \/ (65 <= ch /\ ch <= 90) \/ (48 <= ch /\ ch <= 57)
    \/ ch \in {45, 95}

is_alphanumeric_english_only(s) == s # <<>> /\ \A i \in DOMAIN s : WordChar(s[i])

RECURSIVE WordStart(_, _)
WordStart(lower_text, w_start) ==
    IF w_start > 0 /\ is_alphanumeric_english_only(<<PyAt(lower_text, w_start - 1)>>)
    THEN WordStart(lower_text, w_start - 1) ELSE w_start

RECURSIVE WordEnd(_, _)
WordEnd(lower_text, w_end) ==
    IF w_end + 1 < Len(lower_text)
       /\ is_alphanumeric_english_only(<<PyAt(lower_text, w_end + 1)>>)
    THEN WordEnd(lower_text, w_end + 1) ELSE w_end

\* lines 270-273 left out
underscore_not_checked(lower_text, start_index, end_index) == FALSE

\* lines 270-273: the match touches an underscore on an outer side
underscore_adjacent(lower_text, start_index, end_index) ==
    \/ (start_index > 0 /\ PyAt(lower_text, start_index - 1) = 95)
    \/ (end_index + 1 < Len(lower_text) /\ PyAt(lower_text, end_index + 1) = 95)

\* lines 275-289: is_valid_match
is_valid_match(lower_text, start_index, end_index) ==
    LET containing_word ==
            PySlice(lower_text, WordStart(lower_text, start_index),
                    WordEnd(lower_text, end_index) + 1)
    IN  IF is_alphanumeric_english_only(containing_word)
        THEN Len(containing_word) = end_index - start_index + 1
        ELSE TRUE

\* lines 292-297
boundary_at_start_index(text, start_index, standard_word) ==
    /\ start_index > 1
    /\ is_ascii_alphabet(PyAt(text, start_index - 1)) = is_ascii_alphabet(standard_word[1])
    /\ is_ascii_alphabet(PyAt(text, start_index - 1))

\* lines 299-302 (the last conjunct reads text[start_index - 1], which for
\* start_index = 0 is text[-1])
boundary_at_end_index(text, start_index, end_index, standard_word) ==
    /\ end_index + 1 < Len(text)
    /\ is_ascii_alphabet(PyAt(text, end_index + 1))
         = is_ascii_alphabet(standard_word[Len(standard_word)])
    /\ is_ascii_alphabet(PyAt(text, start_index - 1))

\* lines 304-313: the tuple appended to all_matches
make_match(text, start_index, end_index, standard_word) ==
    LET lead == IF boundary_at_start_index(text, start_index, standard_word)
                THEN <<32>> ELSE <<>>
        trail == IF boundary_at_end_index(text, start_index, end_index, standard_word)
                 THEN <<32>> ELSE <<>>
    IN  [start |-> start_index, end |-> end_index,
         fs |-> PySlice(text, start_index, end_index + 1),
         sw |-> standard_word, sws |-> lead \o standard_word \o trail]

\* a keyword of the automaton occupies [start_index, end_index] of lower_text
keyword_at(dict, lower_text, start_index, end_index) ==
    PySlice(lower_text, start_index, end_index + 1) \in DOMAIN dict

\* the loop of line 267 keeps the occurrence
accepted(dict, lower_text, start_index, end_index) ==
    /\ keyword_at(dict, lower_text, start_index, end_index)
    /\ ~underscore_adjacent(lower_text, start_index, end_index)
    /\ is_valid_match(lower_text, start_index, end_index)

\* the occurrences that end at end_index and pass the loop body of line 267,
\* longest first
matches_ending_at(dict, text, lower_text, end_index) ==
    LET starts == SelectSeq([k \in 1..(end_index + 1) |-> k - 1],
                            LAMBDA start_index :
                                accepted(dict, lower_text, start_index, end_index))
    IN  [k \in 1..Len(starts) |->
            make_match(text, starts[k], end_index,
                       dict[PySlice(lower_text, starts[k], end_index + 1)])]

\* self.automaton.iter(lower_text) filtered by the loop body: every occurrence
\* of every keyword, by end_index ascending
RECURSIVE scan_from(_, _, _, _)
scan_from(dict, text, lower_text, end_index) ==
    IF end_index >= Len(text) THEN <<>>
    ELSE matches_ending_at(dict, text, lower_text, end_index)
         \o scan_from(dict, text, lower_text, end_index + 1)

\* key=lambda x: (x[0], -x[1])
sort_key_less(a, b) == a.start < b.start \/ (a.start = b.start /\ -a.end < -b.end)

\* list.sort (stable): insertion of m into a sorted list
RECURSIVE insert_sorted(_, _)
insert_sorted(m, list) ==
    IF list = <<>> THEN <<m>>
    ELSE IF sort_key_less(m, Head(list)) THEN <<m>> \o list
    ELSE <<Head(list)>> \o insert_sorted(m, Tail(list))

RECURSIVE sort_matches(_)
sort_matches(list) ==
    IF list = <<>> THEN <<>>
    ELSE insert_sorted(list[Len(list)], sort_matches(SubSeq(list, 1, Len(list) - 1)))

\* all_matches after line 319
scan_run(dict, text) == sort_matches(scan_from(dict, text, Lower(text), 0))

(***************************************************************************)
(* Overlap resolver, tagger and renderer: lines 319-403.                   *)
(***************************************************************************)

\* line 334-335: the candidate extends an accepted match of its term
extends_existing(existing, start, end) ==
    existing.start < start /\ start < existing.end /\ end > existing.end

\* lines 336-342: whitespace around the overlap forbids the merge
whitespace_at_overlap(text, existing, start) ==
    \/ (start > 0 /\ IsSpace(PyAt(text, start - 1)))
    \/ (existing.end + 1 < Len(text) /\ IsSpace(PyAt(text, existing.end + 1)))
    \/ \E c \in Range(PySlice(text, existing.end + 1, start)) : IsSpace(c)

\* start >= last_end instead of start > last_end
clears_last_end_off_by_one(start, end_of_last) == start >= end_of_last

\* line 355: the candidate clears everything accepted so far
clears_last_end(start, end_of_last) == start > end_of_last

\* list.index(x): the first position of x (1-based), 0 when x is not in the
\* list (the ValueError of line 348)
list_index(list, x) ==
    IF \E i \in DOMAIN list : list[i] = x
    THEN CHOOSE i \in DOMAIN list : list[i] = x /\ \A k \in 1..(i - 1) : list[k] # x
    ELSE 0

\* lines 352-353 and 359-360: sw in self.gps_name and "名词" in label_
names_competitor(label_tbl, sw) ==
    sw \in Range(gps_name) /\ Contains(label_tbl[Lower(sw)], standard_word_col)

\* a or b on the three-valued flags
PyOr(a, b) == IF a = "True" THEN a ELSE b

PyBool(b) == IF b THEN "True" ELSE "False"

\* [x.lower() for x in self.gps_name]
gps_name_lower == {Lower(x) : x \in Range(gps_name)}

\* lines 368-379, the tagging loop from entry i: st = [raised, product, own,
\* last_], last_ being found_competitor_product_ ("unbound" until assigned)
RECURSIVE tag_from(_, _, _, _)
tag_from(label_tbl, plan, i, st) ==
    IF i > Len(plan) THEN st
    ELSE LET found_slice == plan[i].fs
         IN  IF Lower(found_slice) \in gps_name_lower
             THEN tag_from(label_tbl, plan, i + 1, st)
             ELSE IF Lower(found_slice) \notin DOMAIN label_tbl
             THEN [st EXCEPT !.raised = "KeyError"]
             ELSE LET label == label_tbl[Lower(found_slice)]
                      product_ == \E x \in Range(gps_name) : Contains(label, x)
                      own_ == \A x \in Range(gps_name) : ~Contains(label, x)
                  IN  tag_from(label_tbl, plan, i + 1,
                               [raised |-> "", product |-> st.product \/ product_,
                                own |-> st.own \/ own_, last_ |-> PyBool(product_)])

tag_loop(label_tbl, plan) ==
    tag_from(label_tbl, plan, 1,
             [raised |-> "", product |-> FALSE, own |-> FALSE, last_ |-> "unbound"])

\* founded_standard_words.count(standard)
count_standard(plan, standard) == Cardinality({i \in DOMAIN plan : plan[i].sw = standard})

\* lines 384-390 without the test found_slice == standard
not_rendered_no_identity(plan, m, name_found, last_) ==
    \/ (count_standard(plan, m.sw) > 1 /\ Lower(m.fs) # Lower(m.sw))
    \/ (name_found = "True" /\ last_ = "True")

\* lines 384-390 without the test on founded_standard_words.count
not_rendered_no_repeat(plan, m, name_found, last_) ==
    \/ m.fs = m.sw
    \/ (name_found = "True" /\ last_ = "True")

\* lines 384-390: the entry is not rendered
not_rendered(plan, m, name_found, last_) ==
    \/ (count_standard(plan, m.sw) > 1 /\ Lower(m.fs) # Lower(m.sw))
    \/ m.fs = m.sw
    \/ (name_found = "True" /\ last_ = "True")

\* line 389 reads found_competitor_product_ before any assignment
reads_unbound(plan, m, name_found, last_) ==
    /\ ~(count_standard(plan, m.sw) > 1 /\ Lower(m.fs) # Lower(m.sw))
    /\ m.fs # m.sw
    /\ name_found = "True" /\ last_ = "unbound"

\* lines 381-398, the rendering loop from entry i: st = [raised, replaced,
\* annotated, replacements, last_index]
RECURSIVE render_from(_, _, _, _, _, _)
render_from(text, plan, i, name_found, last_, st) ==
    IF i > Len(plan) THEN st
    ELSE LET m == plan[i]
         IN  IF reads_unbound(plan, m, name_found, last_)
             THEN [st EXCEPT !.raised = "UnboundLocalError"]
             ELSE IF not_rendered(plan, m, name_found, last_)
             THEN render_from(text, plan, i + 1, name_found, last_, st)
             ELSE render_from(text, plan, i + 1, name_found, last_,
                    [raised |-> "",
                     replaced |-> st.replaced \o PySlice(text, st.last_index, m.start)
                                  \o m.sws,
                     annotated |-> st.annotated \o PySlice(text, st.last_index, m.start)
                                   \o m.fs \o <<40>> \o m.sw \o <<41>>,
                     replacements |-> Append(st.replacements, <<m.fs, m.sws>>),
                     last_index |-> m.end + 1])

\* lines 362-403: what _replace_text_internal returns for the accepted plan
render_run(label_tbl, text, plan, name_found) ==
    LET tg == tag_loop(label_tbl, plan)
        rd == render_from(text, plan, 1, name_found, tg.last_,
                          [raised |-> "", replaced |-> <<>>, annotated |-> <<>>,
                           replacements |-> <<>>, last_index |-> 0])
    IN  IF tg.raised # "" THEN [raised |-> tg.raised]
        ELSE IF rd.raised # "" THEN [raised |-> rd.raised]
        ELSE [raised |-> "",
              replaced |-> rd.replaced \o PySlice(text, rd.last_index, Len(text)),
              annotated |-> rd.annotated \o PySlice(text, rd.last_index, Len(text)),
              replacements |-> rd.replacements,
              name |-> name_found,
              only |-> PyBool(tg.product /\ ~tg.own)]

(***************************************************************************)
(* Inputs: vocabulary tables and texts.                                    *)
(***************************************************************************)

\* the longest text drawn from TextAlphabet
MaxLen == 4

\* G E U+7532 _ - space newline
TextAlphabet == {71, 69, 30002, 95, 45, 32, 10}

BoundedTexts == UNION {[1..n -> TextAlphabet] : n \in 0..MaxLen}

\* column names: U+522B U+540D (an alias column), the same followed by "2",
\* and "GE" U+5546 U+54C1 U+540D "1" (the brand-name-alias column)
ColAlias == <<21035, 21517>>
ColAlias2 == <<21035, 21517, 50>>
ColBrandAlias == <<71, 69, 21830, 21697, 21517, 49>>

\* the vocabulary of the end-to-end example: U+901A U+7528 U+7535 U+6C14 <- GE
VocabExample ==
    [columns |-> <<standard_word_col, ColAlias>>,
     rows |-> << << <<36890, 29992, 30005, 27668>>, <<71, 69>> >> >>]

\* a brand name as canonical term: GE <- U+7532 U+7532 U+7532
VocabBrand ==
    [columns |-> <<standard_word_col, ColAlias>>,
     rows |-> << << <<71, 69>>, <<30002, 30002, 30002>> >> >>]

\* ordinary terms: Eg <- U+7532 U+7532, G-E; "U+7532 space U+7532" <- "U+7532 -",
\* E newline E; GRE
VocabTerms ==
    [columns |-> <<standard_word_col, ColAlias, ColBrandAlias>>,
     rows |-> << << <<69, 103>>, <<30002, 30002>>, <<71, 45, 69>> >>,
                 << <<30002, 32, 30002>>, <<30002, 45>>, <<69, 10, 69>> >>,
                 << <<71, 82, 69>>, <<110, 97, 110>>, <<47>> >> >>]

\* one term with overlapping aliases: E <- U+7532 x3, U+7532 x4;
\* E <- U+901A U+7528 U+7535, U+7528 U+7535 U+6C14
VocabOverlap ==
    [columns |-> <<standard_word_col, ColAlias, ColAlias2>>,
     rows |-> << << <<69>>, <<30002, 30002, 30002>>, <<30002, 30002, 30002, 30002>> >>,
                 << <<69>>, <<36890, 29992, 30005>>, <<29992, 30005, 27668>> >> >>]

\* a competitor's product name and an alias that is a brand name:
\* Eg <- E (alias), U+7532 U+7532 (GE product name); Fh <- GE (alias)
VocabProduct ==
    [columns |-> <<standard_word_col, ColAlias, ColBrandAlias>>,
     rows |-> << << <<69, 103>>, <<69>>, <<30002, 30002>> >>,
                 << <<70, 104>>, <<71, 69>>, <<47>> >> >>]

\* two terms whose aliases overlap: E <- U+901A U+7528 U+7535;
\* G <- U+7528 U+7535 U+6C14
VocabCross ==
    [columns |-> <<standard_word_col, ColAlias>>,
     rows |-> << << <<69>>, <<36890, 29992, 30005>> >>,
                 << <<71>>, <<29992, 30005, 27668>> >> >>]

Vocabularies ==
    {VocabExample, VocabBrand, VocabTerms, VocabOverlap, VocabProduct, VocabCross}

\* the texts of the examples, beyond BoundedTexts
ExampleTexts ==
    { <<25105, 20204, 29992, 71, 69, 35774, 22791>>,           \* the end-to-end example
      <<51, 100, 45, 103, 114, 101, 103, 111, 114, 121>>,      \* 3d-gregory
      <<103, 114, 101>>,                                       \* gre
      <<97, 98, 99, 95, 103, 114, 101, 95, 100, 101, 102>>,    \* abc_gre_def
      <<30002, 30002, 30002, 30002, 30002>>,                   \* U+7532 x5
      <<36890, 29992, 30005, 27668>>,                          \* U+901A U+7528 U+7535 U+6C14
      <<69, 103>>,                                             \* Eg
      <<30002, 32, 30002>>,                                    \* U+7532 space U+7532
      <<71, 82, 69>>,                                          \* GRE
      <<71, 69, 92, 110, 9, 71, 69>>,                          \* GE \ n tab GE
      <<9, 32, 13>>,                                           \* tab space CR
      <<71, 69, 32, 30002, 30002, 30002, 30002>>,              \* GE space U+7532 x4
      <<51, 100, 45, 103, 114, 101, 103, 111, 114, 121, 32, 103, 114, 101>>,
                                                               \* 3d-gregory gre
      <<30002, 30002, 92, 110, 9, 30002, 30002>>,              \* U+7532 x2 \ n tab U+7532 x2
      <<36890, 29992, 30005, 71>> }                            \* U+901A U+7528 U+7535 G

Texts == BoundedTexts \cup ExampleTexts

(***************************************************************************)
(* The state machine of one replace_text call on a compiled vocabulary.    *)
(***************************************************************************)

\* no second call is suspended
NoFrame == [pc |-> "none"]

\* no table has been read
NoTable == [columns |-> <<>>, rows |-> <<>>]

NoResult == [replaced |-> <<>>, annotated |-> <<>>, replacements |-> <<>>,
             competitor_name_appear |-> "None",
             only_competitor_product_appear |-> "None"]

\* __init__ has run: load_synonyms compiled the vocabulary; no call yet
Init ==
    /\ excel_file \in Vocabularies
    /\ load_synonyms(excel_file).raised = ""
    /\ synonym_dict = load_synonyms(excel_file).tbl.d
    /\ synonym_dict_label = load_synonyms(excel_file).tbl.l
    /\ automaton = make_automaton(synonym_dict)
    /\ normalized = <<>>
    /\ calls = <<>>
    /\ other = NoFrame
    /\ pc = "idle"
    /\ input = <<>>
    /\ parts = <<>>
    /\ part_i = 1
    /\ modified_parts = <<>>
    /\ replaced_part_with_sws = <<>>
    /\ all_replacements_made = <<>>
    /\ found_name_all = "False"
    /\ found_product_all = "False"
    /\ all_matches = <<>>
    /\ match_i = 1
    /\ exist_j = 1
    /\ final_matches = <<>>
    /\ last_end = -1
    /\ match_dict = <<>>
    /\ found_competitor_name = "False"
    /\ result = NoResult
    /\ raised = ""
    /\ run = <<>>
    /\ expanded = <<>>

\* "not text" instead of "not text.strip()"
is_blank_empty_only(text) == text = <<>>

\* line 185: not text.strip()
is_blank(text) == Strip(text) = <<>>

\* replace_text, lines 185-201: the early return, or normalize and split
ReplaceTextCall(text) ==
    /\ pc = "idle"
    /\ input' = text
    /\ IF is_blank(text)
       THEN /\ result' = [replaced |-> text, annotated |-> text, replacements |-> <<>>,
                          competitor_name_appear |-> "None",
                          only_competitor_product_appear |-> "None"]
            /\ pc' = "done"
            /\ UNCHANGED <<parts, normalized>>
       ELSE /\ normalized' = normalize_spaces(text)
            /\ parts' = re_split(normalized')
            /\ pc' = "parts"
            /\ result' = result
    /\ UNCHANGED <<excel_file, automaton, calls, other,
                   synonym_dict, synonym_dict_label, part_i, modified_parts,
                   replaced_part_with_sws, all_replacements_made, found_name_all,
                   found_product_all, all_matches, match_i, exist_j, final_matches,
                   last_end, match_dict, found_competitor_name, raised, run, expanded>>

\* lines 203-204: an empty part of the split is skipped
SkipEmptyPart ==
    /\ pc = "parts" /\ part_i <= Len(parts)
    /\ parts[part_i] = <<>>
    /\ part_i' = part_i + 1
    /\ UNCHANGED <<excel_file, automaton, calls, other, normalized,
                   synonym_dict, synonym_dict_label, pc, input, parts, modified_parts,
                   replaced_part_with_sws, all_replacements_made, found_name_all,
                   found_product_all, all_matches, match_i, exist_j, final_matches,
                   last_end, match_dict, found_competitor_name, result, raised, run,
                   expanded>>

\* lines 206-208: a delimiter part is added back as is
KeepSeparator ==
    /\ pc = "parts" /\ part_i <= Len(parts)
    /\ parts[part_i] # <<>>
    /\ is_separator(parts[part_i])
    /\ modified_parts' = Append(modified_parts, parts[part_i])
    /\ replaced_part_with_sws' = Append(replaced_part_with_sws, parts[part_i])
    /\ part_i' = part_i + 1
    /\ UNCHANGED <<excel_file, automaton, calls, other, normalized,
                   synonym_dict, synonym_dict_label, pc, input, parts,
                   all_replacements_made, found_name_all, found_product_all,
                   all_matches, match_i, exist_j, final_matches, last_end, match_dict,
                   found_competitor_name, result, raised, run, expanded>>

\* lines 211-217: what replace_text does with the value of _replace_text_internal
RunReturns(replaced_part, replaced_part_with_sw, replacements, name_, product_) ==
    /\ modified_parts' = Append(modified_parts, replaced_part)
    /\ all_replacements_made' = all_replacements_made \o replacements
    /\ found_name_all' = PyOr(found_name_all, name_)
    /\ found_product_all' = PyOr(found_product_all, product_)
    /\ replaced_part_with_sws' = Append(replaced_part_with_sws, replaced_part_with_sw)
    /\ part_i' = part_i + 1
    /\ pc' = "parts"

\* _replace_text_internal, lines 225-324, on a content part: scan, filter and
\* sort; with no match it returns at line 317
ScanRun ==
    /\ pc = "parts" /\ part_i <= Len(parts)
    /\ parts[part_i] # <<>>
    /\ ~is_separator(parts[part_i])
    /\ LET text == parts[part_i]
           found == scan_run(automaton.words, text)
       IN  /\ run' = text
           /\ all_matches' = found
           /\ IF found = <<>>
              THEN /\ RunReturns(text, text, <<>>, "None", "None")
                   /\ UNCHANGED <<match_i, exist_j, final_matches, last_end,
                                  match_dict, found_competitor_name>>
              ELSE /\ pc' = "resolve"
                   /\ match_i' = 1
                   /\ exist_j' = 1
                   /\ final_matches' = <<>>
                   /\ last_end' = -1
                   /\ match_dict' = <<>>
                   /\ found_competitor_name' = "False"
                   /\ UNCHANGED <<part_i, modified_parts, replaced_part_with_sws,
                                  all_replacements_made, found_name_all,
                                  found_product_all>>
    /\ UNCHANGED <<excel_file, automaton, calls, other, normalized,
                   synonym_dict, synonym_dict_label, input, parts, result, raised,
                   expanded>>

\* the candidate of the for loop of line 326
candidate == all_matches[match_i]

\* every accepted match, whatever its canonical term
existing_matchs_any_term == final_matches

\* existing_matchs of line 330, empty when sw is not in match_dict
existing_matchs ==
    IF candidate.sw \in DOMAIN match_dict THEN match_dict[candidate.sw] ELSE <<>>

\* lines 344-347
updated_match(text, existing, m) ==
    [start |-> existing.start, end |-> m.end,
     fs |-> PySlice(text, existing.start, m.end + 1), sw |-> m.sw, sws |-> m.sws]

\* lines 331-353: one iteration of the loop over existing_matchs
MergeStep ==
    /\ pc = "resolve"
    /\ exist_j <= Len(existing_matchs)
    /\ LET text == run
           m == candidate
           existing == existing_matchs[exist_j]
           index_ == list_index(final_matches, existing)
       IN  IF extends_existing(existing, m.start, m.end)
              /\ ~whitespace_at_overlap(text, existing, m.start)
           THEN IF index_ = 0
                THEN /\ raised' = "ValueError"
                     /\ pc' = "raised"
                     /\ UNCHANGED <<final_matches, last_end, found_competitor_name,
                                    exist_j>>
                ELSE /\ final_matches' =
                           [final_matches EXCEPT ![index_] = updated_match(text, existing, m)]
                     /\ last_end' = m.end
                     /\ IF Lower(m.sw) \in DOMAIN synonym_dict_label
                        THEN /\ found_competitor_name' =
                                   PyOr(found_competitor_name,
                                        PyBool(names_competitor(synonym_dict_label, m.sw)))
                             /\ exist_j' = exist_j + 1
                             /\ UNCHANGED <<pc, raised>>
                        ELSE /\ raised' = "KeyError"
                             /\ pc' = "raised"
                             /\ UNCHANGED <<found_competitor_name, exist_j>>
           ELSE /\ exist_j' = exist_j + 1
                /\ UNCHANGED <<final_matches, last_end, found_competitor_name, pc, raised>>
    /\ UNCHANGED <<excel_file, automaton, calls, other, normalized,
                   synonym_dict, synonym_dict_label, input, parts, part_i,
                   modified_parts, replaced_part_with_sws, all_replacements_made,
                   found_name_all, found_product_all, all_matches, match_i,
                   match_dict, result, run, expanded>>

\* match_dict[sw].append(match) on the defaultdict
match_dict_append(md, m) ==
    [k \in DOMAIN md \cup {m.sw} |->
        IF k = m.sw THEN (IF k \in DOMAIN md THEN Append(md[k], m) ELSE <<m>>)
        ELSE md[k]]

\* lines 355-360, then the next candidate of the for loop
AcceptStep ==
    /\ pc = "resolve"
    /\ exist_j > Len(existing_matchs)
    /\ LET m == candidate
           next_pc == IF match_i + 1 > Len(all_matches) THEN "render" ELSE "resolve"
       IN  IF clears_last_end(m.start, last_end)
           THEN /\ final_matches' = Append(final_matches, m)
                /\ match_dict' = match_dict_append(match_dict, m)
                /\ last_end' = m.end
                /\ IF Lower(m.sw) \in DOMAIN synonym_dict_label
                   THEN /\ found_competitor_name' =
                              PyOr(found_competitor_name,
                                   PyBool(names_competitor(synonym_dict_label, m.sw)))
                        /\ match_i' = match_i + 1
                        /\ exist_j' = 1
                        /\ pc' = next_pc
                        /\ raised' = raised
                   ELSE /\ raised' = "KeyError"
                        /\ pc' = "raised"
                        /\ UNCHANGED <<found_competitor_name, match_i, exist_j>>
           ELSE /\ match_i' = match_i + 1
                /\ exist_j' = 1
                /\ pc' = next_pc
                /\ UNCHANGED <<final_matches, match_dict, last_end,
                               found_competitor_name, raised>>
    /\ UNCHANGED <<excel_file, automaton, calls, other, normalized,
                   synonym_dict, synonym_dict_label, input, parts, part_i,
                   modified_parts, replaced_part_with_sws, all_replacements_made,
                   found_name_all, found_product_all, all_matches, result, run,
                   expanded>>

\* lines 362-403, and lines 211-217 of replace_text on the returned value
FinishRun ==
    /\ pc = "render"
    /\ LET r == render_run(synonym_dict_label, run, final_matches,
                           found_competitor_name)
       IN  IF r.raised # ""
           THEN /\ raised' = r.raised
                /\ pc' = "raised"
                /\ UNCHANGED <<part_i, modified_parts, replaced_part_with_sws,
                               all_replacements_made, found_name_all, found_product_all>>
           ELSE /\ RunReturns(r.replaced, r.annotated, r.replacements, r.name, r.only)
                /\ raised' = raised
    /\ UNCHANGED <<excel_file, automaton, calls, other, normalized,
                   synonym_dict, synonym_dict_label, input, parts, all_matches,
                   match_i, exist_j, final_matches, last_end, match_dict,
                   found_competitor_name, result, run, expanded>>

\* lines 219-221: the 4-part result
Return ==
    /\ pc = "parts" /\ part_i > Len(parts)
    /\ result' = [replaced |-> Join(modified_parts),
                  annotated |-> Join(replaced_part_with_sws),
                  replacements |-> all_replacements_made,
                  competitor_name_appear |-> found_name_all,
                  only_competitor_product_appear |-> found_product_all]
    /\ pc' = "done"
    /\ UNCHANGED <<excel_file, automaton, calls, other, normalized,
                   synonym_dict, synonym_dict_label, input, parts, part_i,
                   modified_parts, replaced_part_with_sws, all_replacements_made,
                   found_name_all, found_product_all, all_matches, match_i, exist_j,
                   final_matches, last_end, match_dict, found_competitor_name, raised,
                   run, expanded>>

\* a caller invokes replace_text on any text
Call == pc = "idle" /\ \E text \in Texts : ReplaceTextCall(text)

Next ==
    \/ Call
    \/ SkipEmptyPart
    \/ KeepSeparator
    \/ ScanRun
    \/ MergeStep
    \/ AcceptStep
    \/ FinishRun
    \/ Return

Spec == Init /\ [][Next]_vars

(***************************************************************************)
(* The variant expander on its own: one call of replace_question_marks or  *)
(* of _add_synonym_and_variants on the empty tables of __init__.            *)
(***************************************************************************)

\* the longest template drawn from TemplateAlphabet
MaxTemplateLen == 3

\* a ? -
TemplateAlphabet == {97, 63, 45}

\* ab?cd
TemplateExample == <<97, 98, 63, 99, 100>>

Templates == UNION {[1..n -> TemplateAlphabet] : n \in 0..MaxTemplateLen}
             \cup {TemplateExample}

\* canonical terms of the calls: X, Yz
StandardWords == {<<88>>, <<89, 122>>}

\* lines 10-14 of __init__: the tables are empty, load_synonyms has not run
InitExpand ==
    /\ excel_file = NoTable
    /\ automaton = NewAutomaton
    /\ normalized = <<>>
    /\ calls = <<>>
    /\ other = NoFrame
    /\ synonym_dict = <<>>
    /\ synonym_dict_label = <<>>
    /\ pc = "compile"
    /\ input = <<>>
    /\ parts = <<>>
    /\ part_i = 1
    /\ modified_parts = <<>>
    /\ replaced_part_with_sws = <<>>
    /\ all_replacements_made = <<>>
    /\ found_name_all = "False"
    /\ found_product_all = "False"
    /\ all_matches = <<>>
    /\ match_i = 1
    /\ exist_j = 1
    /\ final_matches = <<>>
    /\ last_end = -1
    /\ match_dict = <<>>
    /\ found_competitor_name = "False"
    /\ result = NoResult
    /\ raised = ""
    /\ run = <<>>
    /\ expanded = <<>>

\* replace_question_marks(s)
ExpandCall(s) ==
    /\ input' = s
    /\ expanded' = replace_question_marks(s)
    /\ pc' = "expanded"
    /\ UNCHANGED <<excel_file, automaton, calls, other, normalized,
                   synonym_dict, synonym_dict_label, parts, part_i, modified_parts,
                   replaced_part_with_sws, all_replacements_made, found_name_all,
                   found_product_all, all_matches, match_i, exist_j, final_matches,
                   last_end, match_dict, found_competitor_name, result, raised, run>>

\* _add_synonym_and_variants(synonym, standard_word, col)
AddCall(synonym, standard_word, col) ==
    /\ input' = synonym
    /\ LET tbl == add_synonym_and_variants([d |-> synonym_dict, l |-> synonym_dict_label],
                                           synonym, standard_word, col)
       IN  /\ synonym_dict' = tbl.d
           /\ synonym_dict_label' = tbl.l
    /\ calls' = Append(calls, <<synonym, standard_word, col>>)
    /\ pc' = "registered"
    /\ UNCHANGED <<excel_file, automaton, other, normalized,
                   parts, part_i, modified_parts, replaced_part_with_sws,
                   all_replacements_made, found_name_all, found_product_all,
                   all_matches, match_i, exist_j, final_matches, last_end, match_dict,
                   found_competitor_name, result, raised, run, expanded>>

Expand == pc = "compile" /\ \E s \in Templates : ExpandCall(s)

Add ==
    /\ pc = "compile"
    /\ \E synonym \in Templates, standard_word \in StandardWords,
          col \in {standard_word_col, ColAlias} :
            AddCall(synonym, standard_word, col)

NextExpand ==
    \/ Expand
    \/ Add

SpecExpand == InitExpand /\ [][NextExpand]_vars

(***************************************************************************)
(* Properties.                                                             *)
(***************************************************************************)

\* the overlap-resolution pass of a run is under way or has ended
InPass == pc \in {"resolve", "render"}

\* replace_text has ended, by a return or by an exception
Ended == pc \in {"done", "raised"}

\* the canonical terms of the compiled vocabulary
CanonicalTerms == {synonym_dict[k] : k \in DOMAIN synonym_dict}

\* C1: after every step of the overlap-resolution pass (merge steps included)
\* no two entries of final_matches have overlapping inclusive ranges
\* [start,end], and the entries are in strictly increasing order of start.
C1_NoOverlapSorted ==
    /\ \A i \in DOMAIN final_matches : final_matches[i].start <= final_matches[i].end
    /\ \A i, j \in DOMAIN final_matches :
          i < j => final_matches[i].end < final_matches[j].start

\* a plan of two entries, one of them produced by a merge (its text is no
\* keyword), at the end of the pass
C1_Witness ==
    /\ pc = "render"
    /\ Len(final_matches) = 2
    /\ \E i \in DOMAIN final_matches : Lower(final_matches[i].fs) \notin DOMAIN synonym_dict

\* C2: once the vocabulary has compiled, replace_text never ends in an
\* exception, whatever the input.
C2_NoErrorOutcome == pc # "raised" /\ raised = ""

\* the text of the end-to-end example, and the replaced text it promises
C3_Input == <<25105, 20204, 29992, 71, 69, 35774, 22791>>
C3_Replaced ==
    <<25105, 20204, 29992, 32, 36890, 29992, 30005, 27668, 32, 35774, 22791>>

\* C3: with the vocabulary whose only row maps GE to the canonical term
\* U+901A U+7528 U+7535 U+6C14, replace_text of the example text returns the
\* replaced text with one space on each side of the replacement, and
\* competitor_name_appear true.
C3_EndToEndExample ==
    (Ended /\ input = C3_Input /\ synonym_dict = load_synonyms(VocabExample).tbl.d)
    => /\ pc = "done"
       /\ result.replaced = C3_Replaced
       /\ result.competitor_name_appear = "True"

\* C4 as stated: for every canonical term T, replace_text(T) returns T, T,
\* no replacement and neither flag set.
C4_IdempotentOnCanonical ==
    (Ended /\ input \in CanonicalTerms)
    => /\ pc = "done"
       /\ result.replaced = input
       /\ result.annotated = input
       /\ result.replacements = <<>>
       /\ result.competitor_name_appear # "True"
       /\ result.only_competitor_product_appear # "True"

\* the canonical terms C4 holds for: not a brand name, left alone by the space
\* normalizer and the segmenter, and still registered to itself under the
\* canonical label
C4_Plain(T) ==
    /\ T \in CanonicalTerms
    /\ T \notin Range(gps_name)
    /\ normalize_spaces(T) = T
    /\ re_split(T) = <<T>>
    /\ Lower(T) \in DOMAIN synonym_dict
    /\ synonym_dict[Lower(T)] = T
    /\ synonym_dict_label[Lower(T)] = standard_word_col

\* C4, amended: for every canonical term T that is not a brand name of
\* gps_name, that normalize_spaces and the segmenter leave unchanged, and whose
\* lowercase form is registered to T under the canonical label, replace_text(T)
\* returns T, T, no replacement and both flags False.
C4_IdempotentOnPlainCanonical ==
    (Ended /\ C4_Plain(input))
    => /\ pc = "done"
       /\ result = [replaced |-> input, annotated |-> input, replacements |-> <<>>,
                    competitor_name_appear |-> "False",
                    only_competitor_product_appear |-> "False"]

\* replace_text("Eg") has returned, Eg being a canonical term
C4_Witness ==
    /\ pc = "done"
    /\ input = <<69, 103>>
    /\ C4_Plain(input)
    /\ final_matches # <<>>

\* an underscore is the character before offset start or after offset end
C5_UnderscoreBeside(text, start, end) ==
    \/ (start > 0 /\ text[start] = 95)
    \/ (end + 2 <= Len(text) /\ text[end + 2] = 95)

\* C5: no match kept by the scan and no entry of the accepted plan (merged
\* entries included) has an underscore immediately before its start or
\* immediately after its end.
C5_UnderscoreJoiner ==
    /\ \A i \in DOMAIN all_matches :
          ~C5_UnderscoreBeside(run, all_matches[i].start, all_matches[i].end)
    /\ InPass =>
          \A i \in DOMAIN final_matches :
              ~C5_UnderscoreBeside(run, final_matches[i].start, final_matches[i].end)

\* the pass over a run ended with an accepted match, and the run also holds
\* an occurrence of a keyword beside an underscore
C5_Witness ==
    /\ pc = "render"
    /\ final_matches # <<>>
    /\ \E s \in 0..(Len(run) - 1) : \E e \in s..(Len(run) - 1) :
          /\ PySlice(Lower(run), s, e + 1) \in DOMAIN synonym_dict
          /\ C5_UnderscoreBeside(run, s, e)

\* an ASCII letter, digit, hyphen or underscore
C6_WordCharacter(c) ==
    c \in (97..122) \cup (65..90) \cup (48..57) \cup {45, 95}

C7_Alphabet == {<<45>>, <<95>>, <<94>>, <<>>, <<32>>, <<8212>>}

\* the positions of the placeholders of a template
C7_Placeholders(s) == {i \in DOMAIN s : s[i] = 63}

\* the template with the placeholder at position i replaced by f[i]
C7_Substitute(s, f) ==
    Join([i \in DOMAIN s |-> IF s[i] = 63 THEN f[i] ELSE <<s[i]>>])

\* C7: replace_question_marks on a template with k placeholders returns 6^k
\* strings, one for each combination of the substitution alphabet, the other
\* characters left in place; _add_synonym_and_variants on ab?cd registers
\* exactly 6 keys, all mapped to the same canonical term.
C7_ExpansionComplete ==
    /\ pc = "expanded" =>
          LET combos == [C7_Placeholders(input) -> C7_Alphabet]
          IN  /\ Len(expanded) = 6 ^ Cardinality(C7_Placeholders(input))
              /\ \A f \in combos :
                    Cardinality({i \in DOMAIN expanded :
                                    expanded[i] = C7_Substitute(input, f)})
                    = Cardinality({g \in combos :
                                    C7_Substitute(input, g) = C7_Substitute(input, f)})
    /\ (pc = "registered" /\ input = TemplateExample) =>
          /\ DOMAIN synonym_dict =
                {<<97, 98>> \o c \o <<99, 100>> : c \in C7_Alphabet}
          /\ Cardinality(DOMAIN synonym_dict) = 6
          /\ DOMAIN synonym_dict_label = DOMAIN synonym_dict
          /\ \E standard_word \in StandardWords :
                \A k \in DOMAIN synonym_dict : synonym_dict[k] = standard_word

\* _add_synonym_and_variants has registered the template ab?cd
C7_Witness ==
    /\ pc = "registered"
    /\ input = TemplateExample
    /\ Cardinality(DOMAIN synonym_dict) = 6

\* the length of a delimiter (newline, carriage return, tab, or backslash
\* followed by n, r or t) at position i (1-based) of t, 0 when there is none
C8_DelimiterAt(t, i) ==
    IF t[i] \in {10, 13, 9} THEN 1
    ELSE IF t[i] = 92 /\ i + 1 <= Len(t) /\ t[i + 1] \in {110, 114, 116} THEN 2
    ELSE 0

C8_NoDelimiter(t) == \A i \in DOMAIN t : C8_DelimiterAt(t, i) = 0

\* the delimiter runs of t from position i on, cur being the run under way
RECURSIVE C8_RunsFrom(_, _, _)
C8_RunsFrom(t, i, cur) ==
    IF i > Len(t) THEN (IF cur = <<>> THEN <<>> ELSE <<cur>>)
    ELSE IF C8_DelimiterAt(t, i) > 0
         THEN C8_RunsFrom(t, i + C8_DelimiterAt(t, i),
                          cur \o SubSeq(t, i, i + C8_DelimiterAt(t, i) - 1))
         ELSE (IF cur = <<>> THEN <<>> ELSE <<cur>>) \o C8_RunsFrom(t, i + 1, <<>>)

C8_DelimiterRuns(t) == C8_RunsFrom(t, 1, <<>>)

\* the elements of a appear in b, in the same order
RECURSIVE C8_InOrder(_, _)
C8_InOrder(a, b) ==
    IF a = <<>> THEN TRUE
    ELSE IF b = <<>> THEN FALSE
    ELSE IF Head(a) = Head(b) THEN C8_InOrder(Tail(a), Tail(b))
    ELSE C8_InOrder(a, Tail(b))

\* C8: no match, plan entry or replacement covers a delimiter, and every
\* delimiter run of the space-normalized input appears verbatim and in order
\* in the replaced string and in the annotated string.
C8_DelimiterNonCrossing ==
    /\ \A i \in DOMAIN all_matches : C8_NoDelimiter(all_matches[i].fs)
    /\ \A i \in DOMAIN final_matches : C8_NoDelimiter(final_matches[i].fs)
    /\ \A i \in DOMAIN all_replacements_made :
          C8_NoDelimiter(all_replacements_made[i][1])
    /\ pc = "done" =>
          /\ C8_InOrder(C8_DelimiterRuns(normalize_spaces(input)),
                        C8_DelimiterRuns(result.replaced))
          /\ C8_InOrder(C8_DelimiterRuns(normalize_spaces(input)),
                        C8_DelimiterRuns(result.annotated))

\* a text with the delimiter run "\n" tab between two runs, a replacement made
\* in each run
C8_Witness ==
    /\ pc = "done"
    /\ input = <<30002, 30002, 92, 110, 9, 30002, 30002>>
    /\ Len(result.replacements) = 2
    /\ C8_DelimiterRuns(result.replaced) = << <<92, 110, 9>> >>

C9_IsCJK(c) == 19968 <= c /\ c <= 40959

C9_IsLetter(c) == c \in (97..122) \cup (65..90)

\* C9: for an accepted match, a side on which the canonical term's edge is an
\* ASCII letter and the adjacent text character is a CJK ideograph gets one
\* inserted space, and a side on which the canonical term's edge is CJK gets
\* none.
C9_SpacingInsertion ==
    pc = "render" =>
        \A i \in DOMAIN final_matches :
            LET m == final_matches[i]
                cjk_before == m.start > 0 /\ C9_IsCJK(run[m.start])
                cjk_after == m.end + 2 <= Len(run) /\ C9_IsCJK(run[m.end + 2])
                first == m.sw[1]
                last == m.sw[Len(m.sw)]
            IN  /\ (C9_IsLetter(first) /\ cjk_before) => m.sws[1] = 32
                /\ (C9_IsLetter(last) /\ cjk_after) => m.sws[Len(m.sws)] = 32
                /\ C9_IsCJK(first) => m.sws[1] # 32
                /\ C9_IsCJK(last) => m.sws[Len(m.sws)] # 32

\* a text of spaces, tabs and newlines only (the empty text included)
C10_Blank(t) == \A i \in DOMAIN t : t[i] \in {32, 9, 10}

\* C10: for an empty or whitespace-only input replace_text returns the input
\* as given as replaced and as annotated string, no replacement, and both
\* flags None.
C10_BlankInput ==
    (Ended /\ C10_Blank(input))
    => /\ pc = "done"
       /\ result = [replaced |-> input, annotated |-> input, replacements |-> <<>>,
                    competitor_name_appear |-> "None",
                    only_competitor_product_appear |-> "None"]

\* replace_text of two spaces and a newline has returned
C10_Witness ==
    /\ pc = "done"
    /\ input = <<32, 32, 10>>
    /\ result.replaced = <<32, 32, 10>>

(***************************************************************************)
(* The space normalizer on its own: one call of normalize_spaces.          *)
(***************************************************************************)

\* the longest text drawn from NormalizeAlphabet
MaxNormalizeLen == 4

\* U+7532, E, space, 3
NormalizeAlphabet == {30002, 69, 32, 51}

\* U+7532 sp sp U+7532 sp E sp sp E sp
NormalizeExample == <<30002, 32, 32, 30002, 32, 69, 32, 32, 69, 32>>

NormalizeTexts == UNION {[1..n -> NormalizeAlphabet] : n \in 0..MaxNormalizeLen}
                  \cup {NormalizeExample}

\* normalize_spaces(text)
NormalizeCall(text) ==
    /\ input' = text
    /\ normalized' = normalize_spaces(text)
    /\ pc' = "normalized"
    /\ UNCHANGED <<excel_file, automaton, calls, other, synonym_dict, synonym_dict_label, parts,
                   part_i, modified_parts, replaced_part_with_sws,
                   all_replacements_made, found_name_all, found_product_all,
                   all_matches, match_i, exist_j, final_matches, last_end, match_dict,
                   found_competitor_name, result, raised, run, expanded>>

Normalize == pc = "compile" /\ \E text \in NormalizeTexts : NormalizeCall(text)

NextNormalize == Normalize

SpecNormalize == InitExpand /\ [][NextNormalize]_vars

\* position i of t is the first space of a maximal run of spaces
C11_RunStart(t, i) == t[i] = 32 /\ (i = 1 \/ t[i - 1] # 32)

\* the last position of the maximal run of spaces that starts at i
C11_RunLast(t, i) ==
    CHOOSE j \in i..Len(t) :
        /\ \A k \in i..j : t[k] = 32
        /\ (j = Len(t) \/ t[j + 1] # 32)

C11_Ideograph(c) == 19968 <= c /\ c <= 40959

\* what the rule of C11 leaves at position i of t
C11_Kept(t, i) ==
    IF t[i] # 32 THEN <<t[i]>>
    ELSE IF ~C11_RunStart(t, i) THEN <<>>
    ELSE IF /\ i > 1
            /\ C11_RunLast(t, i) < Len(t)
            /\ C11_Ideograph(t[i - 1])
            /\ C11_Ideograph(t[C11_RunLast(t, i) + 1])
         THEN <<>>
         ELSE <<32>>

ColPhonetic == <<35835, 38899, 38899, 26631>>

\* U+4E0D U+4F5C U+53C2 U+8003, a reference-only column
ColReference == <<19981, 20316, 21442, 32771>>

\* the column layouts of the generated tables
ColumnLayouts ==
    { <<standard_word_col, ColAlias>>,
      <<ColAlias, ColAlias2>>,
      <<ColAlias, standard_word_col>>,
      <<standard_word_col, ColReference, ColAlias>>,
      <<standard_word_col, ColAlias, ColPhonetic, ColAlias2>>,
      <<standard_word_col, ColPhonetic, ColBrandAlias, ColAlias>>,
      <<standard_word_col, ColBrandAlias, ColPhonetic, ColAlias>> }

\* the cells of a canonical column: Eg, NONE, nan, blank, q?
CanonicalCells ==
    { <<69, 103>>, <<78, 79, 78, 69>>, <<110, 97, 110>>, <<32>>, <<113, 63>> }

\* the cells of the column at position j of a layout: one capital letter of
\* its own (B, C, D, ...), "/", NONE, nan, blank
VariantCells(j) ==
    { <<65 + j>>, <<47>>, <<78, 79, 78, 69>>, <<110, 97, 110>>, <<32>> }

CellsOf(columns, j) ==
    IF columns[j] = standard_word_col THEN CanonicalCells ELSE VariantCells(j)

\* the one-row tables over the layouts
OneRowTables ==
    UNION { { [columns |-> columns, rows |-> <<row>>] :
                row \in { r \in [DOMAIN columns -> UNION {CellsOf(columns, j) :
                                                            j \in DOMAIN columns}] :
                            \A j \in DOMAIN columns : r[j] \in CellsOf(columns, j) } } :
            columns \in ColumnLayouts }

\* rows (Eg, B) and (Fh, EG): the second row's variant is the first row's
\* canonical term in another case
TableVariantCollision ==
    [columns |-> <<standard_word_col, ColAlias>>,
     rows |-> << << <<69, 103>>, <<66>> >>, << <<70, 104>>, <<69, 71>> >> >>]

\* rows (Eg, B) and (EG, C): two canonical terms with the same lowercase form
TableCanonicalCollision ==
    [columns |-> <<standard_word_col, ColAlias>>,
     rows |-> << << <<69, 103>>, <<66>> >>, << <<69, 71>>, <<67>> >> >>]

CompileTables ==
    Vocabularies \cup OneRowTables
    \cup {TableVariantCollision, TableCanonicalCollision}

\* the texts of the calls served after construction: the examples, none, B,
\* and B after a newline
ServeTexts == ExampleTexts \cup { <<110, 111, 110, 101>>, <<66>>, <<10, 66>> }

\* before __init__: no instance, nothing read
InitCompile ==
    /\ excel_file = NoTable
    /\ automaton = NewAutomaton
    /\ normalized = <<>>
    /\ calls = <<>>
    /\ other = NoFrame
    /\ synonym_dict = <<>>
    /\ synonym_dict_label = <<>>
    /\ pc = "new"
    /\ input = <<>>
    /\ parts = <<>>
    /\ part_i = 1
    /\ modified_parts = <<>>
    /\ replaced_part_with_sws = <<>>
    /\ all_replacements_made = <<>>
    /\ found_name_all = "False"
    /\ found_product_all = "False"
    /\ all_matches = <<>>
    /\ match_i = 1
    /\ exist_j = 1
    /\ final_matches = <<>>
    /\ last_end = -1
    /\ match_dict = <<>>
    /\ found_competitor_name = "False"
    /\ result = NoResult
    /\ raised = ""
    /\ run = <<>>
    /\ expanded = <<>>

\* SynonymReplacer(excel_file_path), lines 8-15 and 73-128: either the
\* ValueError of line 78 leaves __init__ (no instance), or the tables are
\* filled, the automaton is made and the instance is returned
Construct(table) ==
    /\ pc = "new"
    /\ excel_file' = table
    /\ LET loaded == load_synonyms(table)
       IN  IF loaded.raised # ""
           THEN /\ raised' = loaded.raised
                /\ pc' = "compile_raised"
                /\ UNCHANGED <<synonym_dict, synonym_dict_label, automaton>>
           ELSE /\ synonym_dict' = loaded.tbl.d
                /\ synonym_dict_label' = loaded.tbl.l
                /\ automaton' = make_automaton(loaded.tbl.d)
                /\ pc' = "idle"
                /\ raised' = raised
    /\ UNCHANGED <<calls, other, normalized, input, parts, part_i, modified_parts,
                   replaced_part_with_sws, all_replacements_made, found_name_all,
                   found_product_all, all_matches, match_i, exist_j, final_matches,
                   last_end, match_dict, found_competitor_name, result, run, expanded>>

New == pc = "new" /\ \E table \in CompileTables : Construct(table)

\* a replace_text call on the constructed instance
Serve == pc = "idle" /\ \E text \in ServeTexts : ReplaceTextCall(text)

NextCompile ==
    \/ New
    \/ Serve
    \/ SkipEmptyPart
    \/ KeepSeparator
    \/ ScanRun
    \/ MergeStep
    \/ AcceptStep
    \/ FinishRun
    \/ Return

SpecCompile == InitCompile /\ [][NextCompile]_vars

\* a table has been handed to the constructor
C12_Read == excel_file # NoTable

\* C12: when the table lacks the canonical column, construction ends in the
\* ValueError raised to the caller: no variant is registered, the automaton is
\* never made, no instance exists and so no replace_text call is ever served.
C12_MissingColumnFatal ==
    (C12_Read /\ \A j \in DOMAIN excel_file.columns :
                    excel_file.columns[j] # <<21517, 35789>>)
    => /\ pc = "compile_raised"
       /\ raised = "ValueError"
       /\ synonym_dict = <<>>
       /\ synonym_dict_label = <<>>
       /\ automaton.made = FALSE
       /\ automaton.words = <<>>
       /\ input = <<>>
       /\ result = NoResult

\* construction has failed on a table without the canonical column whose
\* row holds a usable variant cell
C12_Witness ==
    /\ pc = "compile_raised"
    /\ excel_file.columns = << <<21035, 21517>>, <<21035, 21517, 50>> >>
    /\ excel_file.rows = << << <<66>>, <<67>> >> >>

\* the stripped text of the cell at column j of row r
C13_Cell(r, j) == Strip(excel_file.rows[r][j])

\* empty, "/", nan, or none in any letter case
C13_Missing(cell) ==
    \/ cell = <<>>
    \/ cell = <<47>>
    \/ cell = <<110, 97, 110>>
    \/ Lower(cell) = <<110, 111, 110, 101>>

\* C13: after compilation no key of the variant table comes from a cell whose
\* stripped text is empty, "/", nan or none in any letter case, and no key
\* maps to a canonical cell that is such a marker.
C13_MissingCellsSkipped ==
    pc = "idle" =>
        /\ \A r \in DOMAIN excel_file.rows : \A j \in DOMAIN excel_file.columns :
              C13_Missing(C13_Cell(r, j)) =>
                  Lower(C13_Cell(r, j)) \notin DOMAIN synonym_dict
        /\ \A k \in DOMAIN synonym_dict : ~C13_Missing(synonym_dict[k])

C14_IsPhonetic(col) == Contains(col, <<35835, 38899, 38899, 26631>>)

C14_IsReference(col) ==
    \/ Contains(col, <<19981, 20316, 21442, 32771>>)
    \/ Contains(col, <<25991, 26412, 32, 51, 53>>)

C14_IsBrandAlias(col) == Contains(col, <<71, 69, 21830, 21697, 21517, 49>>)

\* the rule of C14 for the column at position j
C14_Supplies(columns, j) ==
    /\ columns[j] # <<21517, 35789>>
    /\ ~C14_IsReference(columns[j])
    /\ ~C14_IsPhonetic(columns[j])
    /\ ~(/\ \E i \in 1..(j - 1) : C14_IsPhonetic(columns[i])
         /\ ~C14_IsBrandAlias(columns[j]))

\* the row has a usable canonical cell
C14_ValidRow(r) ==
    \E j \in DOMAIN excel_file.columns :
        /\ excel_file.columns[j] = <<21517, 35789>>
        /\ ~C13_Missing(C13_Cell(r, j))

\* no other cell of the table has the text of cell (r, j) in any letter case
C14_Unique(r, j) ==
    \A r2 \in DOMAIN excel_file.rows : \A j2 \in DOMAIN excel_file.columns :
        (<<r2, j2>> # <<r, j>>) => Lower(C13_Cell(r2, j2)) # Lower(C13_Cell(r, j))

\* C14: a usable cell of a valid row is registered, under its column's name,
\* exactly when its column is not the canonical column, not a reference-only
\* column, not the phonetic column, and not a column after the phonetic
\* column other than the brand-name-alias column.
C14_ColumnSelection ==
    pc = "idle" =>
        \A r \in DOMAIN excel_file.rows : \A j \in DOMAIN excel_file.columns :
            (/\ C14_ValidRow(r)
             /\ excel_file.columns[j] # <<21517, 35789>>
             /\ ~C13_Missing(C13_Cell(r, j))
             /\ C14_Unique(r, j))
            => ((/\ Lower(C13_Cell(r, j)) \in DOMAIN synonym_dict
                 /\ synonym_dict_label[Lower(C13_Cell(r, j))] = excel_file.columns[j])
                <=> C14_Supplies(excel_file.columns, j))

\* C16: after compilation, for every canonical term T of a valid row, the
\* lowercase form of T is a key of the variant table, maps to T, and has the
\* canonical label.
C16_CanonicalSelfMatch ==
    pc = "idle" =>
        \A r \in DOMAIN excel_file.rows : \A j \in DOMAIN excel_file.columns :
            (excel_file.columns[j] = <<21517, 35789>> /\ ~C13_Missing(C13_Cell(r, j)))
            => /\ Lower(C13_Cell(r, j)) \in DOMAIN synonym_dict
               /\ synonym_dict[Lower(C13_Cell(r, j))] = C13_Cell(r, j)
               /\ synonym_dict_label[Lower(C13_Cell(r, j))] = <<21517, 35789>>

(***************************************************************************)
(* Registration: a sequence of _add_synonym_and_variants calls on the      *)
(* empty tables of __init__.                                               *)
(***************************************************************************)

\* the longest sequence of calls
MaxCalls == 2

\* the synonyms of the calls: a, "A ", a?, ?, " ", a-
RegisterSynonyms ==
    { <<97>>, <<65, 32>>, <<97, 63>>, <<63>>, <<32>>, <<97, 45>> }

Register ==
    /\ pc \in {"compile", "registered"}
    /\ Len(calls) < MaxCalls
    /\ \E synonym \in RegisterSynonyms, standard_word \in StandardWords,
          col \in {standard_word_col, ColAlias} :
            AddCall(synonym, standard_word, col)

NextRegister == Register

SpecRegister == InitExpand /\ [][NextRegister]_vars

\* the keys the call <<synonym, standard_word, col>> registers
C15_KeysOf(call) ==
    IF Strip(call[1]) = <<>> THEN {}
    ELSE {Lower(v) : v \in {w \in final_variants(Strip(call[1])) : w # <<>>}}

\* the most recent call that registered key k
C15_LastCall(k) ==
    CHOOSE i \in DOMAIN calls :
        /\ k \in C15_KeysOf(calls[i])
        /\ \A j \in (i + 1)..Len(calls) : k \notin C15_KeysOf(calls[j])

\* C15: after any sequence of _add_synonym_and_variants calls the two tables
\* have the same key set, the keys registered by the calls; every key is a
\* non-empty lowercase string whose canonical term and label are those of the
\* most recent call that registered it.
C15_LastRegisteredWins ==
    /\ DOMAIN synonym_dict = DOMAIN synonym_dict_label
    /\ DOMAIN synonym_dict = UNION {C15_KeysOf(calls[i]) : i \in DOMAIN calls}
    /\ \A k \in DOMAIN synonym_dict :
          /\ k # <<>>
          /\ Lower(k) = k
          /\ synonym_dict[k] = calls[C15_LastCall(k)][2]
          /\ synonym_dict_label[k] = calls[C15_LastCall(k)][3]

\* a key registered by two calls with different canonical terms and labels
C15_Witness ==
    \E i, j \in DOMAIN calls : \E k \in DOMAIN synonym_dict :
        /\ i < j
        /\ k \in C15_KeysOf(calls[i]) \cap C15_KeysOf(calls[j])
        /\ calls[i][2] # calls[j][2]
        /\ calls[i][3] # calls[j][3]
        /\ calls[i][1] # calls[j][1]

(***************************************************************************)
(* Two replace_text calls on one instance, interleaved step by step. The   *)
(* variables of the state machine are the frame of the running call; the   *)
(* frame of the other call is kept in the variable other. The tables and   *)
(* the automaton belong to the instance and are shared.                    *)
(***************************************************************************)

\* the locals of a call that has not started
FreshFrame ==
    [pc |-> "idle", input |-> <<>>, normalized |-> <<>>, parts |-> <<>>,
     part_i |-> 1, modified_parts |-> <<>>, replaced_part_with_sws |-> <<>>,
     all_replacements_made |-> <<>>, found_name_all |-> "False",
     found_product_all |-> "False", run |-> <<>>, all_matches |-> <<>>,
     match_i |-> 1, exist_j |-> 1, final_matches |-> <<>>, last_end |-> -1,
     match_dict |-> <<>>, found_competitor_name |-> "False",
     result |-> NoResult, raised |-> ""]

\* a suspended call whose accepted plan is not kept
Frame_without_plan ==
    [pc |-> pc, input |-> input, normalized |-> normalized, parts |-> parts,
     part_i |-> part_i, modified_parts |-> modified_parts,
     replaced_part_with_sws |-> replaced_part_with_sws,
     all_replacements_made |-> all_replacements_made,
     found_name_all |-> found_name_all, found_product_all |-> found_product_all,
     run |-> run, all_matches |-> all_matches, match_i |-> match_i,
     exist_j |-> exist_j, final_matches |-> <<>>, last_end |-> last_end,
     match_dict |-> match_dict, found_competitor_name |-> found_competitor_name,
     result |-> result, raised |-> raised]

\* the locals of the running call (lines 185-217 and 228-403: every name
\* replace_text and _replace_text_internal assign is a local)
Frame ==
    [pc |-> pc, input |-> input, normalized |-> normalized, parts |-> parts,
     part_i |-> part_i, modified_parts |-> modified_parts,
     replaced_part_with_sws |-> replaced_part_with_sws,
     all_replacements_made |-> all_replacements_made,
     found_name_all |-> found_name_all, found_product_all |-> found_product_all,
     run |-> run, all_matches |-> all_matches, match_i |-> match_i,
     exist_j |-> exist_j, final_matches |-> final_matches, last_end |-> last_end,
     match_dict |-> match_dict, found_competitor_name |-> found_competitor_name,
     result |-> result, raised |-> raised]

\* the running call becomes the one with the locals of frame
Resume(frame) ==
    /\ pc' = frame.pc
    /\ input' = frame.input
    /\ normalized' = frame.normalized
    /\ parts' = frame.parts
    /\ part_i' = frame.part_i
    /\ modified_parts' = frame.modified_parts
    /\ replaced_part_with_sws' = frame.replaced_part_with_sws
    /\ all_replacements_made' = frame.all_replacements_made
    /\ found_name_all' = frame.found_name_all
    /\ found_product_all' = frame.found_product_all
    /\ run' = frame.run
    /\ all_matches' = frame.all_matches
    /\ match_i' = frame.match_i
    /\ exist_j' = frame.exist_j
    /\ final_matches' = frame.final_matches
    /\ last_end' = frame.last_end
    /\ match_dict' = frame.match_dict
    /\ found_competitor_name' = frame.found_competitor_name
    /\ result' = frame.result
    /\ raised' = frame.raised

\* a second thread enters with a call of its own; the first is suspended
Spawn ==
    /\ other = NoFrame
    /\ other' = Frame
    /\ Resume(FreshFrame)
    /\ UNCHANGED <<synonym_dict, synonym_dict_label, automaton, excel_file, calls,
                   expanded>>

\* the interpreter switches from the running call to the suspended one
Switch ==
    /\ other # NoFrame
    /\ other' = Frame
    /\ Resume(other)
    /\ UNCHANGED <<synonym_dict, synonym_dict_label, automaton, excel_file, calls,
                   expanded>>

\* the running thread, its call over, gets ready for its next call
NextCall ==
    /\ pc \in {"done", "raised"}
    /\ Resume(FreshFrame)
    /\ UNCHANGED <<synonym_dict, synonym_dict_label, automaton, excel_file, calls,
                   expanded, other>>

NextConcurrent ==
    \/ Spawn
    \/ Switch
    \/ NextCall
    \/ Serve
    \/ SkipEmptyPart
    \/ KeepSeparator
    \/ ScanRun
    \/ MergeStep
    \/ AcceptStep
    \/ FinishRun
    \/ Return

SpecConcurrent == Init /\ [][NextConcurrent]_vars

\* both calls are over
C17_BothOver == pc \in {"done", "raised"} /\ other.pc \in {"done", "raised"}

\* C17: no step of a replace_text call changes synonym_dict,
\* synonym_dict_label or the automaton (gps_name is never assigned), and
\* under every interleaving of two calls a call on a given input ends as any
\* other call on that input does, one run alone included.
C17_VocabularyReadOnly ==
    /\ [][/\ synonym_dict' = synonym_dict
          /\ synonym_dict_label' = synonym_dict_label
          /\ automaton' = automaton]_vars
    /\ [](automaton = make_automaton(load_synonyms(excel_file).tbl.d))
    /\ []((C17_BothOver /\ input = other.input)
          => (pc = other.pc /\ result = other.result /\ raised = other.raised))

\* two calls on the same text that made a replacement in two runs are over,
\* the tables as compiled
C17_Witness ==
    /\ C17_BothOver
    /\ input = other.input
    /\ input = <<30002, 30002, 92, 110, 9, 30002, 30002>>
    /\ Len(result.replacements) = 2
    /\ synonym_dict = load_synonyms(excel_file).tbl.d

\* the six brand-name strings
C18_BrandNames ==
    { <<71, 69>>, <<35199, 38376, 23376>>, <<39134, 21033, 28006>>,
      <<83, 105, 101, 109, 101, 110, 115>>, <<36890, 29992, 30005, 27668>>,
      <<80, 104, 105, 108, 105, 112, 115>> }

\* the source label of a matched text, <<>> when the text is no variant
C18_LabelOf(fs) ==
    IF Lower(fs) \in DOMAIN synonym_dict_label
    THEN synonym_dict_label[Lower(fs)] ELSE <<>>

\* C18: at the end of the pass over a run, found_competitor_name is true if
\* and only if some accepted match's literal text is one of the brand-name
\* strings and the label of that matched variant is the canonical label; a
\* non-brand alias of a brand-name canonical term does not set it.
C18_CompetitorNameFlag ==
    pc = "render" =>
        (found_competitor_name = "True"
         <=> \E i \in DOMAIN final_matches :
                /\ final_matches[i].fs \in C18_BrandNames
                /\ C18_LabelOf(final_matches[i].fs) = <<21517, 35789>>)

\* the label mentions a brand name
C19_MentionsBrand(label) == \E g \in C18_BrandNames : Contains(label, g)

\* the text had one content run, with matches, and nothing else
C19_SingleRun == parts = <<run>> /\ final_matches # <<>>

\* C19: for a text that is one content run, only_competitor_product_appear is
\* true if and only if some match of the accepted plan has a label that
\* mentions a brand name and no match of the plan has a label that mentions
\* none, matches whose literal text is a brand name and matches not rendered
\* included.
C19_OnlyCompetitorFlag ==
    (/\ pc = "done"
     /\ C19_SingleRun
     /\ \A i \in DOMAIN final_matches :
           Lower(final_matches[i].fs) \in DOMAIN synonym_dict_label)
    => (result.only_competitor_product_appear = "True"
        <=> /\ \E i \in DOMAIN final_matches :
                  C19_MentionsBrand(C18_LabelOf(final_matches[i].fs))
            /\ \A i \in DOMAIN final_matches :
                  C19_MentionsBrand(C18_LabelOf(final_matches[i].fs)))

\* the last run with matches holds a match, not a brand-name literal, whose
\* label mentions no brand name: an own-product label
C20_OwnProductInARun ==
    \E i \in DOMAIN final_matches :
        /\ Lower(final_matches[i].fs) \in DOMAIN synonym_dict_label
        /\ Lower(final_matches[i].fs) \notin {Lower(g) : g \in C18_BrandNames}
        /\ ~C19_MentionsBrand(C18_LabelOf(final_matches[i].fs))

\* C20: for a text with several runs, competitor_name_appear is true when it
\* is true in a run, and only_competitor_product_appear, being (competitor
\* label in any run) and not (own-product label in any run), is not true when
\* a run holds an own-product match, whatever the other runs hold.
C20_FlagsAcrossRuns ==
    (pc = "done" /\ final_matches # <<>>)
    => /\ found_competitor_name = "True" => result.competitor_name_appear = "True"
       /\ C20_OwnProductInARun => result.only_competitor_product_appear # "True"

(***************************************************************************)
(* Claims C21..C30: the overlap resolver, the renderer, the expander's     *)
(* derived forms and the normalizer, checked under Spec, SpecRegister and  *)
(* SpecNormalize.                                                          *)
(***************************************************************************)

\* the extension condition existing_start < new_start < existing_end < new_end
C21_Extends(e, m) == e.start < m.start /\ m.start < e.end /\ e.end < m.end

\* the character immediately before new_start or the one immediately after
\* existing_end is whitespace
C21_SpaceBeside(text, e, m) ==
    IsSpace(PyAt(text, m.start - 1)) \/ IsSpace(PyAt(text, e.end + 1))

\* plan2 is plan with the entry e replaced in place by one entry spanning
\* [e.start, m.end] whose text is that slice of the run and whose term is m.sw
C21_ReplacedInPlace(plan, plan2, text, e, m) ==
    /\ Len(plan2) = Len(plan)
    /\ \E i \in DOMAIN plan :
          /\ plan[i] = e
          /\ plan2[i].start = e.start /\ plan2[i].end = m.end
          /\ plan2[i].fs = PySlice(text, e.start, m.end + 1)
          /\ plan2[i].sw = m.sw
          /\ \A k \in DOMAIN plan : k # i => plan2[k] = plan[k]

\* C21: in the merge step, when the candidate of term T satisfies
\* existing_start < new_start < existing_end < new_end against an already
\* accepted match of T and no whitespace stands beside the overlap, that
\* entry is replaced in place by one spanning [existing_start, new_end] with
\* that slice as its text and T as its term, last_end becomes new_end and the
\* plan keeps its length; with whitespace beside the overlap the plan is
\* unchanged.
C21_MergeReplacesInPlace ==
    [][ (pc = "resolve" /\ exist_j <= Len(existing_matchs)
         /\ C21_Extends(existing_matchs[exist_j], candidate))
        => IF C21_SpaceBeside(run, existing_matchs[exist_j], candidate)
           THEN final_matches' = final_matches /\ last_end' = last_end
           ELSE /\ C21_ReplacedInPlace(final_matches, final_matches', run,
                                       existing_matchs[exist_j], candidate)
                /\ last_end' = candidate.end ]_vars

\* a comes before b in the order (start ascending, end descending)
C22_Before(a, b) == a.start < b.start \/ (a.start = b.start /\ a.end > b.end)

\* the inclusive ranges of a and b share a position
C22_Overlap(a, b) == a.start <= b.end /\ b.start <= a.end

\* same number of entries, each with the same span, text and canonical term
C22_SamePlan(p, q) ==
    /\ Len(p) = Len(q)
    /\ \A i \in DOMAIN p :
          /\ p[i].start = q[i].start /\ p[i].end = q[i].end
          /\ p[i].fs = q[i].fs /\ p[i].sw = q[i].sw

\* the candidates are in (start ascending, end descending) order
C22_InOrder ==
    \A i, j \in DOMAIN all_matches :
        i < j => ~C22_Before(all_matches[j], all_matches[i])

\* every candidate is taken in that order, and an entry is appended only for
\* the candidate, when its start is greater than last_end
C22_AppendsOnlyPastLastEnd ==
    /\ match_i' \in {match_i, match_i + 1}
    /\ Len(final_matches') > Len(final_matches)
          => /\ candidate.start > last_end
             /\ final_matches' = Append(final_matches, candidate)

\* C22 as stated: candidates are processed in (start ascending, end
\* descending) order, one is appended only if its start is greater than
\* last_end, and whenever two candidates of different canonical terms
\* overlap, the later one never enters the plan and never changes the span,
\* text or canonical term of an accepted entry.
C22_LaterCandidateLoses ==
    [][ pc = "resolve"
        => /\ C22_InOrder
           /\ C22_AppendsOnlyPastLastEnd
           /\ (\E k \in 1..(match_i - 1) :
                  /\ all_matches[k].sw # candidate.sw
                  /\ C22_Overlap(all_matches[k], candidate))
              => C22_SamePlan(final_matches, final_matches') ]_vars

\* C22, amended: the same with the earlier candidate being one that is in
\* the plan: a candidate that overlaps an accepted entry of a different
\* canonical term never enters the plan and never changes an accepted entry.
C22_LaterLosesToAccepted ==
    [][ pc = "resolve"
        => /\ C22_InOrder
           /\ C22_AppendsOnlyPastLastEnd
           /\ (\E i \in DOMAIN final_matches :
                  /\ final_matches[i].sw # candidate.sw
                  /\ C22_Overlap(final_matches[i], candidate))
              => C22_SamePlan(final_matches, final_matches') ]_vars

\* a processed candidate satisfies the extension condition, with no
\* whitespace beside the overlap, against an entry of a different canonical
\* term that is in the plan unchanged at the end of the pass
C22_Witness ==
    /\ pc = "render"
    /\ \E k \in DOMAIN all_matches, i \in DOMAIN final_matches :
          /\ all_matches[k].sw # final_matches[i].sw
          /\ final_matches[i] \in Range(all_matches)
          /\ C21_Extends(final_matches[i], all_matches[k])
          /\ ~C21_SpaceBeside(run, final_matches[i], all_matches[k])

\* the run with every plan entry outside keep substituted, from entry i on:
\* the replaced text (annotate FALSE) or the annotated text (annotate TRUE)
RECURSIVE C23_Substituted(_, _, _, _, _, _)
C23_Substituted(text, plan, keep, i, last_index, annotate) ==
    IF i > Len(plan) THEN PySlice(text, last_index, Len(text))
    ELSE IF i \in keep
    THEN C23_Substituted(text, plan, keep, i + 1, last_index, annotate)
    ELSE PySlice(text, last_index, plan[i].start)
         \o (IF annotate THEN plan[i].fs \o <<40>> \o plan[i].sw \o <<41>>
             ELSE plan[i].sws)
         \o C23_Substituted(text, plan, keep, i + 1, plan[i].end + 1, annotate)

\* the (matched_text, replacement) entries of the plan entries outside keep
RECURSIVE C23_Made(_, _, _)
C23_Made(plan, keep, i) ==
    IF i > Len(plan) THEN <<>>
    ELSE (IF i \in keep THEN <<>> ELSE << <<plan[i].fs, plan[i].sws>> >>)
         \o C23_Made(plan, keep, i + 1)

\* the plan entries whose literal text equals their canonical term
C23_Identity(plan) == {i \in DOMAIN plan : plan[i].fs = plan[i].sw}

\* C23: an accepted match whose literal text equals its canonical term is
\* never rendered: the run's outputs are the run with only other entries
\* substituted, so that text stays as it is in the replaced and in the
\* annotated output, and no (matched_text, replacement) entry has a
\* matched_text equal to its canonical term.
C23_IdentityNotRendered ==
    [][ (pc = "render" /\ pc' = "parts")
        => \E keep \in SUBSET DOMAIN final_matches :
              /\ C23_Identity(final_matches) \subseteq keep
              /\ modified_parts'[Len(modified_parts')]
                    = C23_Substituted(run, final_matches, keep, 1, 0, FALSE)
              /\ replaced_part_with_sws'[Len(replaced_part_with_sws')]
                    = C23_Substituted(run, final_matches, keep, 1, 0, TRUE)
              /\ all_replacements_made'
                    = all_replacements_made \o C23_Made(final_matches, keep, 1) ]_vars

\* a run has been rendered whose plan holds an entry with the canonical term
\* as its text and an entry that was replaced
C23_Witness ==
    /\ pc = "parts" /\ part_i > 1 /\ parts[part_i - 1] = run
    /\ all_matches # <<>>
    /\ C23_Identity(final_matches) # {}
    /\ modified_parts[Len(modified_parts)] # run

\* the plan entries of a canonical term that has two or more entries, whose
\* literal text differs from the term when compared case-insensitively
C24_RepeatedAlias(plan) ==
    {i \in DOMAIN plan :
        /\ \E j \in DOMAIN plan : j # i /\ plan[j].sw = plan[i].sw
        /\ Lower(plan[i].fs) # Lower(plan[i].sw)}

\* C24: when the plan of a run has two or more entries for the same canonical
\* term T, no entry for T whose literal text differs from T
\* (case-insensitively) produces a replacement: its text is left unchanged in
\* the replaced string and it is not in the replacement list.
C24_RepeatedAliasSuppressed ==
    [][ (pc = "render" /\ pc' = "parts")
        => \E keep \in SUBSET DOMAIN final_matches :
              /\ C24_RepeatedAlias(final_matches) \subseteq keep
              /\ modified_parts'[Len(modified_parts')]
                    = C23_Substituted(run, final_matches, keep, 1, 0, FALSE)
              /\ all_replacements_made'
                    = all_replacements_made \o C23_Made(final_matches, keep, 1) ]_vars

\* a run has been rendered whose plan holds two entries of one term with a
\* literal text that is not the term
C24_Witness ==
    /\ pc = "parts" /\ part_i > 1 /\ parts[part_i - 1] = run
    /\ all_matches # <<>>
    /\ C24_RepeatedAlias(final_matches) # {}
    /\ modified_parts[Len(modified_parts)] = run

\* the literal text is, case-insensitively, one of the brand names of gps_name
C25_BrandLiteral(fs) == \E b \in Range(gps_name) : Lower(fs) = Lower(b)

\* C25: an accepted match whose literal text is (case-insensitively) one of
\* the brand names of gps_name never appears in the replacement list, in any
\* run.
C25_BrandLiteralExcluded ==
    \A i \in DOMAIN all_replacements_made :
        ~C25_BrandLiteral(all_replacements_made[i][1])

\* the concrete variant strings _add_synonym_and_variants handles for the
\* stripped synonym: its wildcard expansions, or the raw synonym without '?'
C26_ConcreteVariants(synonym) ==
    IF 63 \in Range(synonym) THEN Range(replace_question_marks(synonym))
    ELSE {synonym}

\* the last call of _add_synonym_and_variants
C26_Call == calls[Len(calls)]

\* C26: for every concrete variant string handled by
\* _add_synonym_and_variants that contains a connector character, whether it
\* came from wildcard expansion or is a raw variant without '?', the table
\* also registers for the same canonical term the string with those
\* characters deleted and the string with each of them replaced by a space,
\* whitespace runs collapsed.
C26_PunctuationSiblings ==
    (pc = "registered" /\ Strip(C26_Call[1]) # <<>>)
    => \A word \in C26_ConcreteVariants(Strip(C26_Call[1])) :
          Range(word) \cap special_chars # {}
          => \A sibling \in {Strip(RemoveSpecial(word)),
                             CollapseWhitespace(Strip(SpaceSpecial(word)))} :
                sibling # <<>>
                => /\ Lower(sibling) \in DOMAIN synonym_dict
                   /\ synonym_dict[Lower(sibling)] = C26_Call[2]

\* the replacement the claim gives a match: the canonical term with one
\* leading space iff the character before the match is an ASCII letter and
\* the term begins with one, and one trailing space iff the character after
\* the match is an ASCII letter and the term ends with one
C27_Replacement(text, m) ==
    LET leading == /\ m.start > 0
                   /\ is_ascii_alphabet(text[m.start])
                   /\ is_ascii_alphabet(m.sw[1])
        trailing == /\ m.end + 2 <= Len(text)
                    /\ is_ascii_alphabet(text[m.end + 2])
                    /\ is_ascii_alphabet(m.sw[Len(m.sw)])
    IN  (IF leading THEN <<32>> ELSE <<>>) \o m.sw
        \o (IF trailing THEN <<32>> ELSE <<>>)

\* C27: for every accepted match at any start offset, 0 and 1 included, the
\* replacement has one leading space iff the character before the match and
\* the first character of the canonical term are ASCII letters, and one
\* trailing space iff the character after the match and the last character
\* of the canonical term are ASCII letters, whatever stands before the match.
C27_BoundarySpacing ==
    pc \in {"resolve", "render"}
    => \A i \in DOMAIN final_matches :
          final_matches[i] \in Range(all_matches)
          => final_matches[i].sws = C27_Replacement(run, final_matches[i])

\* C28: every entry of the accepted plan whose label the tagging loop looks
\* up (the entries whose text is no brand name) has a literal text whose
\* lowercase form is a key of the variant tables, registered to the entry's
\* canonical term; entries produced by the merge step included.
C28_PlanTextsAreKeys ==
    pc = "render"
    => \A i \in DOMAIN final_matches :
          ~C25_BrandLiteral(final_matches[i].fs)
          => /\ Lower(final_matches[i].fs) \in DOMAIN synonym_dict_label
             /\ synonym_dict[Lower(final_matches[i].fs)] = final_matches[i].sw

\* C29: throughout the overlap-resolution pass every tuple stored in
\* match_dict[T] is an element of final_matches, also after a merge has
\* replaced an entry, so that final_matches.index finds it for a later
\* candidate of T.
C29_IndexWithinPlan ==
    pc = "resolve"
    => \A sw \in DOMAIN match_dict :
          \A j \in DOMAIN match_dict[sw] :
              match_dict[sw][j] \in Range(final_matches)

\* C30: normalize_spaces is idempotent: a second pass over its result
\* returns the result of the first.
C30_NormalizeIdempotent ==
    pc = "normalized" => normalize_spaces(normalized) = normalized

\* a text the first pass changed, with a space kept and a space removed
\* between two ideographs
C30_Witness ==
    /\ pc = "normalized"
    /\ input = NormalizeExample
    /\ normalized # input
    /\ normalize_spaces(normalized) = normalized

=============================================================================
